---- MODULE Spec2Model ----
(***************************************************************************)
(* A model of lakers_odds_scraper.py: the normalization pipeline           *)
(* (parse_timestamp, extract_samples, resample), the paged discovery loop  *)
(* (iter_markets) and the per-market loop of main with its three writers.  *)
(*                                                                         *)
(* Numbers.  A Python float that carries a timestamp is represented by an  *)
(* integer count of ticks, Scale ticks to the second, so that sub-second   *)
(* timestamps exist in the model.  Prices are opaque numbers; only 0 is    *)
(* special (it is falsy).                                                  *)
(***************************************************************************)
EXTENDS Integers, Sequences, FiniteSets, TLC

\* ---------------------------------------------------------------- bounds
Scale       == 2   \* ticks per second
MaxLen      == 3   \* longest sample sequence handed to resample
NegTicks    == 1   \* earliest timestamp is -NegTicks ticks
MaxTicks    == 4   \* latest timestamp, in ticks
MaxInterval == 2   \* largest resampling interval, in seconds

Ticks     == (0 - NegTicks)..MaxTicks
Prices    == {1, 2}
Intervals == 1..MaxInterval

VARIABLES
    rs_pc,        \* "idle" | "start" | "once" | "twice"
    rs_in,        \* the samples handed to resample
    rs_interval,  \* interval_seconds
    rs_out,       \* resample(rs_in, rs_interval)
    rs_out2,      \* resample(rs_out, rs_interval)
    lk_pc,        \* one pass of the loop body of extract_samples:
                  \* "idle" | "ts" | "price" | "convert" | "done" | "raised"
    lk_item,      \* the record under the loop
    lk_tsarg,     \* the value handed to parse_timestamp
    lk_parsed,    \* what parse_timestamp returned
    lk_price,     \* the value the price lookup produced
    lk_outcome,   \* "none" | "skip" | "append" | "raise"
    lk_sample,    \* the sample appended, when one is
    ex_pc,        \* a call of extract_samples: "idle" | "start" | "done"
    ex_payload,   \* its argument
    ex_result,    \* what it returned, or that it raised
    mn_pc,        \* a run of main: "idle" | "discover" | "listed" | "done" | "crashed"
    mn_cap,       \* args.max_pages
    mn_svg,       \* args.write_svg
    mn_html,      \* args.write_html
    mn_interval,  \* args.interval
    mn_page,      \* iter_markets: page
    mn_cursor,    \* iter_markets: next_cursor
    mn_log,       \* the discovery requests made so far, with their responses
    mn_markets,   \* the markets yielded so far, numbered in order
    mn_i,         \* the position of `for market in markets`
    mn_outcomes,  \* per market handled: its fetch failed, or how many rows it got
    mn_files,     \* the files written
    mn_exit       \* "none" | "0" | "1" | "exception"

rsVars == <<rs_pc, rs_in, rs_interval, rs_out, rs_out2>>
lkVars == <<lk_pc, lk_item, lk_tsarg, lk_parsed, lk_price, lk_outcome, lk_sample>>
exVars == <<ex_pc, ex_payload, ex_result>>
mnVars == <<mn_pc, mn_cap, mn_svg, mn_html, mn_interval, mn_page, mn_cursor, mn_log,
            mn_markets, mn_i, mn_outcomes, mn_files, mn_exit>>
vars == <<rsVars, lkVars, exVars, mnVars>>

\* ------------------------------------------------------------ PriceSample
PriceSample(ts, p) == [timestamp |-> ts, price |-> p]

Samples == {PriceSample(t, p) : t \in Ticks, p \in Prices}

SeqsUpTo(S, n) == UNION {[1..k -> S] : k \in 0..n}

\* --------------------------------------------------------------- resample
\* sample.timestamp // interval_seconds: the floor of the quotient
FloorDivEnd(ts, interval) == (ts \div (Scale * interval)) + 1
FloorDiv(ts, interval) == ts \div (Scale * interval)

\* bucket = int(sample.timestamp // interval_seconds) * interval_seconds, in seconds
BucketIndexOnly(ts, interval) == FloorDiv(ts, interval)
BucketOf(ts, interval) == FloorDiv(ts, interval) * interval

\* buckets[bucket] = sample
DictSetFirst(d, k, v) ==
    [x \in (DOMAIN d) \cup {k} |-> IF x \in DOMAIN d THEN d[x] ELSE v]
DictSet(d, k, v) ==
    [x \in (DOMAIN d) \cup {k} |-> IF x = k THEN v ELSE d[x]]

\* for sample in samples: ... (the loop from position i on)
RECURSIVE FillBuckets(_, _, _, _)
FillBuckets(samples, interval, i, buckets) ==
    IF i > Len(samples) THEN buckets
    ELSE FillBuckets(samples, interval, i + 1,
             DictSet(buckets, BucketOf(samples[i].timestamp, interval), samples[i]))

\* sorted(buckets): the keys in ascending order
RECURSIVE SortedKeys(_)
SortedKeys(S) ==
    IF S = {} THEN <<>>
    ELSE LET m == CHOOSE x \in S : \A y \in S : x <= y
         IN  <<m>> \o SortedKeys(S \ {m})

\* PriceSample(timestamp=ts, ...) with ts the integer bucket key in seconds
SecondsToTicks(s) == s * Scale

resample(samples, interval) ==
    IF samples = <<>> THEN <<>>
    ELSE LET buckets == FillBuckets(samples, interval, 1, <<>>)
             keys    == SortedKeys(DOMAIN buckets)
         IN  [k \in 1..Len(keys) |->
                 PriceSample(SecondsToTicks(keys[k]), buckets[keys[k]].price)]

\* ------------------------------------------------- resample: the harness
RsInit ==
    /\ rs_pc = "start"
    /\ rs_in \in SeqsUpTo(Samples, MaxLen)
    /\ rs_interval \in Intervals
    /\ rs_out = <<>>
    /\ rs_out2 = <<>>

RsIdle ==
    /\ rs_pc = "idle"
    /\ rs_in = <<>>
    /\ rs_interval = 1
    /\ rs_out = <<>>
    /\ rs_out2 = <<>>

Resample ==
    /\ rs_pc = "start"
    /\ rs_out' = resample(rs_in, rs_interval)
    /\ rs_pc' = "once"
    /\ UNCHANGED <<rs_in, rs_interval, rs_out2>>
    /\ UNCHANGED <<lkVars, exVars, mnVars>>

ResampleAgain ==
    /\ rs_pc = "once"
    /\ rs_out2' = resample(rs_out, rs_interval)
    /\ rs_pc' = "twice"
    /\ UNCHANGED <<rs_in, rs_interval, rs_out>>
    /\ UNCHANGED <<lkVars, exVars, mnVars>>


\* ------------------------------------------------------- resample: claims
IsTimeSorted(s) == \A i, j \in 1..Len(s) : i < j => s[i].timestamp <= s[j].timestamp

\* floor(timestamp / interval) * interval, stated without integer division:
\* the one multiple k of interval (in ticks) with k <= ts < k + interval
KeyOf(ts, interval) ==
    CHOOSE k \in (0 - (NegTicks + Scale * interval))..MaxTicks :
        /\ k % (Scale * interval) = 0
        /\ k <= ts
        /\ ts < k + Scale * interval

\* the position of the last sample of s that falls in the bucket with key k
LastIn(s, interval, k) ==
    CHOOSE i \in 1..Len(s) :
        /\ KeyOf(s[i].timestamp, interval) = k
        /\ \A j \in 1..Len(s) : KeyOf(s[j].timestamp, interval) = k => j <= i

\* C1: for a time-sorted input, resample returns exactly one sample per
\* non-empty bucket, stamped with the bucket key and priced as the last input
\* sample of that bucket, in ascending order of bucket key.
C1_LastInBucketWins ==
    (rs_pc \in {"once", "twice"} /\ IsTimeSorted(rs_in)) =>
        LET keys == {KeyOf(rs_in[i].timestamp, rs_interval) : i \in 1..Len(rs_in)}
        IN  /\ {rs_out[n].timestamp : n \in 1..Len(rs_out)} = keys
            /\ Len(rs_out) = Cardinality(keys)
            /\ \A n \in 1..Len(rs_out) :
                   rs_out[n].price =
                       rs_in[LastIn(rs_in, rs_interval, rs_out[n].timestamp)].price
            /\ \A m, n \in 1..Len(rs_out) :
                   m < n => rs_out[m].timestamp < rs_out[n].timestamp

\* a sorted input with a bucket holding two differently priced samples and a
\* second, later bucket
C1_Witness ==
    /\ rs_pc = "once"
    /\ IsTimeSorted(rs_in)
    /\ Len(rs_in) = 3
    /\ Len(rs_out) = 2
    /\ rs_in[1].price # rs_in[2].price
    /\ KeyOf(rs_in[1].timestamp, rs_interval) = KeyOf(rs_in[2].timestamp, rs_interval)
    /\ rs_in[1].timestamp < rs_in[2].timestamp

\* C4: for any input, sorted or not, the output timestamps are strictly
\* increasing (hence pairwise distinct), exact multiples of the interval, and
\* the output is no longer than the input.
C4_UniqueAlignedIncreasing ==
    rs_pc \in {"once", "twice"} =>
        /\ \A m, n \in 1..Len(rs_out) :
               m < n => rs_out[m].timestamp < rs_out[n].timestamp
        /\ \A m, n \in 1..Len(rs_out) :
               m # n => rs_out[m].timestamp # rs_out[n].timestamp
        /\ \A n \in 1..Len(rs_out) :
               rs_out[n].timestamp % (Scale * rs_interval) = 0
        /\ Len(rs_out) <= Len(rs_in)

\* an unsorted input whose samples are off the grid and share a bucket
C4_Witness ==
    /\ rs_pc = "once"
    /\ ~IsTimeSorted(rs_in)
    /\ Len(rs_out) >= 1
    /\ Len(rs_out) < Len(rs_in)
    /\ rs_interval > 1
    /\ \E i \in 1..Len(rs_in) : rs_in[i].timestamp % (Scale * rs_interval) # 0

\* C5: resampling the resampled series with the same interval returns it
\* unchanged.
C5_Idempotent ==
    rs_pc = "twice" => rs_out2 = rs_out

\* the second pass has run on a series that the first pass had changed
C5_Witness ==
    /\ rs_pc = "twice"
    /\ Len(rs_out) >= 2
    /\ rs_out # rs_in
    /\ \E i \in 1..Len(rs_in) : rs_in[i].timestamp < 0

\* ------------------------------------------------------------ JSON values
\* What json.loads can put under a key.  kind is the Python type (and, for a
\* string, what it spells); v is the number it carries (ticks for a
\* timestamp), 0 when it carries none.
Val(k, n) == [kind |-> k, v |-> n]

Absent    == Val("absent", 0)     \* the key is not in the record
Null      == Val("null", 0)       \* None
Num(n)    == Val("num", n)        \* an int or a float that is not NaN
BigInt    == Val("bigint", 0)     \* an int beyond the range of float
NaN       == Val("nan", 0)        \* float("nan")
Bool(b)   == Val("bool", b)       \* False (0) or True (1)
StrNum(n) == Val("str_num", n)    \* a string float() accepts, such as "5"
StrFracZ(n) == Val("str_fracZ", n) \* "2024-01-02T03:04:05.5Z"
StrSecZ(n)  == Val("str_secZ", n)  \* "2024-01-02T03:04:05Z"
StrSpace(n) == Val("str_space", n) \* "2024-01-02 03:04:05"
StrJunk   == Val("str_junk", 0)   \* a string that is none of the above
StrEmpty  == Val("str_empty", 0)  \* ""
List      == Val("list", 0)       \* a non-empty list or dict
EmptyList == Val("emptylist", 0)  \* [] or {}

IsStr(x) == x.kind \in {"str_num", "str_fracZ", "str_secZ", "str_space",
                        "str_junk", "str_empty"}

\* the truth value Python's `or` tests
Truthy(x) ==
    CASE x.kind \in {"absent", "null", "str_empty", "emptylist"} -> FALSE
      [] x.kind \in {"num", "bool"} -> x.v # 0
      [] OTHER -> TRUE

\* results of a call: a float, None, or an exception that leaves the function
Ok(n)  == [tag |-> "ok", v |-> n]
None   == [tag |-> "none", v |-> 0]
Raised == [tag |-> "raise", v |-> 0]

\* --------------------------------------------------------- parse_timestamp
\* the patterns, in the order of the for loop
Formats == <<"str_fracZ", "str_secZ", "str_space">>

\* dt.datetime.strptime(value, fmt) succeeds
StrptimeOk(value, fmt) == value.kind = fmt

\* for fmt in (...): try: return ... except ValueError: continue; then None
RECURSIVE TryFormats(_, _)
TryFormats(value, i) ==
    IF i > Len(Formats) THEN None
    ELSE IF StrptimeOk(value, Formats[i]) THEN Ok(value.v)
    ELSE TryFormats(value, i + 1)

\* isinstance(value, (int, float)): bool is a subclass of int
IsNumber(value) == value.kind \in {"num", "bool", "nan", "bigint"}

\* float(value) of a number raises OverflowError for an int too large
FloatOverflows(value) == value.kind = "bigint"

\* float(value) of a number, in ticks: True is 1.0 second
FloatOf(value) == IF value.kind = "bool" THEN value.v * Scale ELSE value.v

parse_timestamp(value) ==
    IF value.kind = "null" THEN None
    ELSE IF IsNumber(value) /\ FloatOverflows(value) THEN Raised
    ELSE IF IsNumber(value) /\ value.kind # "nan" THEN Ok(FloatOf(value))
    ELSE IF IsStr(value)
         THEN IF value.kind = "str_num" THEN Ok(value.v)  \* float(value)
              ELSE TryFormats(value, 1)
    ELSE None

\* float(price) inside try/except (TypeError, ValueError)
to_float(price) ==
    CASE price.kind \in {"num", "bool", "str_num"} -> Ok(price.v)
      [] price.kind = "bigint" -> Raised   \* OverflowError is not caught
      [] price.kind \in {"str_fracZ", "str_secZ", "str_space", "str_junk",
                         "str_empty"} -> None          \* ValueError
      [] price.kind \in {"null", "absent", "list", "emptylist"} -> None  \* TypeError

\* --------------------------------------------------------- extract_samples
TsKeys    == <<"timestamp", "time", "createdAt", "blockTimestamp">>
PriceKeys == <<"price", "probability", "p", "value">>
Keys      == {TsKeys[i] : i \in 1..4} \cup {PriceKeys[i] : i \in 1..4}

\* an entry of the data list: a dict (f gives each key's value) or not
Dict(f)  == [isdict |-> TRUE, f |-> f]
NotADict == [isdict |-> FALSE, f |-> [k \in Keys |-> Absent]]

\* item.get(key)
Get(item, key) == IF item.f[key] = Absent THEN Null ELSE item.f[key]

\* a or b
Or(a, b) == IF Truthy(a) THEN a ELSE b

\* item.get("timestamp") or item.get("time") or item.get("createdAt")
\*     or item.get("blockTimestamp")
TimestampArg(item) ==
    Or(Or(Or(Get(item, "timestamp"), Get(item, "time")), Get(item, "createdAt")),
       Get(item, "blockTimestamp"))

\* item.get("price") or item.get("probability") or item.get("p") or item.get("value")
PriceArgFirstNotNone(item) ==
    LET present == {i \in 1..4 : Get(item, PriceKeys[i]) # Null}
    IN  IF present = {} THEN Null
        ELSE Get(item, PriceKeys[CHOOSE i \in present : \A j \in present : i <= j])
PriceArg(item) ==
    Or(Or(Or(Get(item, "price"), Get(item, "probability")), Get(item, "p")),
       Get(item, "value"))

\* the body of `for item in data`: what it does with one item
LoopBody(item) ==
    IF ~item.isdict THEN [outcome |-> "skip", sample |-> PriceSample(0, 0)]
    ELSE LET timestamp == parse_timestamp(TimestampArg(item))
             price     == PriceArg(item)
         IN  IF timestamp.tag = "raise"
             THEN [outcome |-> "raise", sample |-> PriceSample(0, 0)]
             ELSE IF timestamp.tag = "none" \/ price = Null
             THEN [outcome |-> "skip", sample |-> PriceSample(0, 0)]
             ELSE LET price_value == to_float(price)
                  IN  CASE price_value.tag = "raise" ->
                             [outcome |-> "raise", sample |-> PriceSample(0, 0)]
                        [] price_value.tag = "none" ->
                             [outcome |-> "skip", sample |-> PriceSample(0, 0)]
                        [] price_value.tag = "ok" ->
                             [outcome |-> "append",
                              sample |-> PriceSample(timestamp.v, price_value.v)]

\* for item in data: ... from position i on; an exception ends the loop
RECURSIVE CollectSamples(_, _, _)
CollectSamples(data, i, samples) ==
    IF i > Len(data) THEN [tag |-> "ok", samples |-> samples]
    ELSE LET r == LoopBody(data[i])
         IN  CASE r.outcome = "raise" -> [tag |-> "raise", samples |-> <<>>]
               [] r.outcome = "skip" -> CollectSamples(data, i + 1, samples)
               [] r.outcome = "append" ->
                      CollectSamples(data, i + 1, Append(samples, r.sample))

\* samples.sort(key=lambda s: s.timestamp): a stable sort
RECURSIVE InsertByTimestamp(_, _)
InsertByTimestamp(sorted, s) ==
    IF sorted = <<>> THEN <<s>>
    ELSE IF sorted[Len(sorted)].timestamp <= s.timestamp THEN Append(sorted, s)
    ELSE Append(InsertByTimestamp(SubSeq(sorted, 1, Len(sorted) - 1), s),
                sorted[Len(sorted)])

RECURSIVE SortByTimestamp(_)
SortByTimestamp(samples) ==
    IF samples = <<>> THEN <<>>
    ELSE InsertByTimestamp(SortByTimestamp(SubSeq(samples, 1, Len(samples) - 1)),
                           samples[Len(samples)])

\* a payload: a bare list, a dict with a "data" list, a dict without "data",
\* or anything else
Payload(shape, data) == [shape |-> shape, data |-> data]

extract_samples(payload) ==
    IF payload.shape \notin {"list", "dict_data"}
    THEN [tag |-> "ok", samples |-> <<>>]
    ELSE LET r == CollectSamples(payload.data, 1, <<>>)
         IN  IF r.tag = "raise" THEN r
             ELSE [tag |-> "ok", samples |-> SortByTimestamp(r.samples)]

\* ------------------------------------- the loop body on one record: harness
MaxRecords == 2   \* longest data list handed to extract_samples

\* a record from the values of its four timestamp keys and four price keys
Item(ts, pr) ==
    Dict([k \in Keys |->
            IF \E i \in 1..4 : TsKeys[i] = k
            THEN ts[CHOOSE i \in 1..4 : TsKeys[i] = k]
            ELSE pr[CHOOSE i \in 1..4 : PriceKeys[i] = k]])

OnlyFirst(x) == [i \in 1..4 |-> IF i = 1 THEN x ELSE Absent]

\* every kind of value, for the parser and the float conversion
AnyVals ==
    {Absent, Null, BigInt, NaN, Bool(0), Bool(1), StrJunk, StrEmpty, List, EmptyList}
    \cup {Num(t) : t \in Ticks} \cup {StrNum(t) : t \in Ticks}
    \cup {StrFracZ(t) : t \in Ticks}
    \cup {StrSecZ(t) : t \in {u \in Ticks : u % Scale = 0}}
    \cup {StrSpace(t) : t \in {u \in Ticks : u % Scale = 0}}

\* values that tell the order of the keys apart
TsOrderVals    == {Absent, Null, Num(0), Num(1), StrEmpty, StrJunk}
PriceOrderVals == {Absent, Null, Num(0), Num(1), Num(2), StrEmpty, Bool(0)}

LkItems ==
    {NotADict}
    \cup {Item(OnlyFirst(x), OnlyFirst(Num(1))) : x \in AnyVals}
    \cup {Item(OnlyFirst(Num(1)), OnlyFirst(x)) : x \in AnyVals \ {NaN}}
    \cup {Item(ts, OnlyFirst(Num(1))) : ts \in [1..4 -> TsOrderVals]}
    \cup {Item(OnlyFirst(Num(1)), pr) : pr \in [1..4 -> PriceOrderVals]}

LkInit ==
    /\ lk_pc = "start"
    /\ lk_item \in LkItems
    /\ lk_tsarg = Null
    /\ lk_parsed = None
    /\ lk_price = Null
    /\ lk_outcome = "none"
    /\ lk_sample = PriceSample(0, 0)

LkIdle ==
    /\ lk_pc = "idle"
    /\ lk_item = NotADict
    /\ lk_tsarg = Null
    /\ lk_parsed = None
    /\ lk_price = Null
    /\ lk_outcome = "none"
    /\ lk_sample = PriceSample(0, 0)

\* a non-dict entry: `continue` before anything is looked up
LkSkipNonDict ==
    /\ lk_pc = "start"
    /\ ~lk_item.isdict
    /\ lk_pc' = "done"
    /\ lk_outcome' = LoopBody(lk_item).outcome
    /\ UNCHANGED <<lk_item, lk_tsarg, lk_parsed, lk_price, lk_sample>>
    /\ UNCHANGED <<rsVars, exVars, mnVars>>

\* timestamp = parse_timestamp(... or ...), and the parser raises
LkParseRaises ==
    /\ lk_pc = "start"
    /\ lk_item.isdict
    /\ parse_timestamp(TimestampArg(lk_item)).tag = "raise"
    /\ lk_tsarg' = TimestampArg(lk_item)
    /\ lk_parsed' = parse_timestamp(TimestampArg(lk_item))
    /\ lk_pc' = "raised"
    /\ lk_outcome' = LoopBody(lk_item).outcome
    /\ UNCHANGED <<lk_item, lk_price, lk_sample>>
    /\ UNCHANGED <<rsVars, exVars, mnVars>>

\* the whole body on a dict: both lookups, the None test, float(price)
LkBody ==
    /\ lk_pc = "start"
    /\ lk_item.isdict
    /\ parse_timestamp(TimestampArg(lk_item)).tag # "raise"
    /\ lk_tsarg' = TimestampArg(lk_item)
    /\ lk_parsed' = parse_timestamp(TimestampArg(lk_item))
    /\ lk_price' = PriceArg(lk_item)
    /\ lk_outcome' = LoopBody(lk_item).outcome
    /\ lk_sample' = LoopBody(lk_item).sample
    /\ lk_pc' = IF LoopBody(lk_item).outcome = "raise" THEN "raised" ELSE "done"
    /\ UNCHANGED lk_item
    /\ UNCHANGED <<rsVars, exVars, mnVars>>


\* --------------------------------------------- extract_samples: the harness
ExTsVals    == {Absent, Null, BigInt, StrJunk} \cup {Num(t) : t \in 0..MaxTicks}
ExPriceVals == {Absent, Num(0), Num(1), Num(2), StrNum(1), StrEmpty}

ExItems ==
    {NotADict}
    \cup {Item(OnlyFirst(t), OnlyFirst(p)) : t \in ExTsVals, p \in ExPriceVals}

Payloads ==
    {Payload(sh, d) : sh \in {"list", "dict_data"}, d \in SeqsUpTo(ExItems, MaxRecords)}
    \cup {Payload("dict_nodata", <<>>), Payload("scalar", <<>>)}

ExInit ==
    /\ ex_pc = "start"
    /\ ex_payload \in Payloads
    /\ ex_result = [tag |-> "ok", samples |-> <<>>]

ExIdle ==
    /\ ex_pc = "idle"
    /\ ex_payload = Payload("scalar", <<>>)
    /\ ex_result = [tag |-> "ok", samples |-> <<>>]

ExtractReturns ==
    /\ ex_pc = "start"
    /\ extract_samples(ex_payload).tag = "ok"
    /\ ex_result' = extract_samples(ex_payload)
    /\ ex_pc' = "done"
    /\ UNCHANGED ex_payload
    /\ UNCHANGED <<rsVars, lkVars, mnVars>>

ExtractRaises ==
    /\ ex_pc = "start"
    /\ extract_samples(ex_payload).tag = "raise"
    /\ ex_result' = extract_samples(ex_payload)
    /\ ex_pc' = "raised"
    /\ UNCHANGED ex_payload
    /\ UNCHANGED <<rsVars, lkVars, mnVars>>


\* ------------------------------------------------ extract_samples: claims
LkRan == lk_pc \in {"done", "raised"} /\ lk_item.isdict

\* the value under the first key of keys that is in the record; None when
\* none of them is
FirstPresent(item, keys) ==
    LET present == {i \in 1..Len(keys) : item.f[keys[i]] # Absent}
    IN  IF present = {} THEN Null
        ELSE item.f[keys[CHOOSE i \in present : \A j \in present : i <= j]]

\* C7: the value handed to the timestamp parser is the value of the first
\* key, in the order timestamp, time, createdAt, blockTimestamp, that is
\* present in the record, whatever that value is.
C7_FirstPresentTimestampKey ==
    LkRan => lk_tsarg = FirstPresent(lk_item, TsKeys)

\* C10: parse_timestamp never raises; it gives no value for null, NaN, a
\* value that is neither number nor string and a string that is neither a
\* number nor one of the three patterns; a number that is not NaN comes back
\* as it is, and a string in one of the patterns as its epoch value.
C10_ParseNeverRaises ==
    LkRan =>
        /\ lk_parsed.tag # "raise"
        /\ lk_tsarg.kind \in {"null", "nan", "list", "emptylist", "str_junk",
                              "str_empty"} => lk_parsed = None
        /\ lk_tsarg.kind \in {"num", "bigint"} => lk_parsed = Ok(lk_tsarg.v)
        /\ lk_tsarg.kind = "bool" => lk_parsed = Ok(lk_tsarg.v * Scale)
        /\ lk_tsarg.kind \in {"str_fracZ", "str_secZ", "str_space"} =>
               lk_parsed = Ok(lk_tsarg.v)

\* the positions, among the first n price keys, whose value is truthy
TruthyPriceKeys(item, n) == {i \in 1..n : Truthy(Get(item, PriceKeys[i]))}

Least(S) == CHOOSE i \in S : \A j \in S : i <= j

\* C8 as stated: the price used is the value of the first of the four keys
\* that is present and not falsy, a falsy value counting as missing for each
\* of the four keys alike, and a record whose four keys are all absent or
\* falsy is dropped.
C8_FalsyMissingForAllFour ==
    (LkRan /\ lk_parsed.tag # "raise") =>
        LET truthy == TruthyPriceKeys(lk_item, 4)
        IN  /\ lk_price = IF truthy = {} THEN Null
                          ELSE lk_item.f[PriceKeys[Least(truthy)]]
            /\ truthy = {} => lk_outcome = "skip"

\* C8 as amended: the price used is the value of the first of price,
\* probability, p that is truthy and otherwise whatever `value` holds (None
\* when absent); so with all four absent or falsy and the timestamp parsed,
\* the record is dropped exactly when `value` is absent, None, "" or an empty
\* container, and a `value` of 0 or False yields a sample priced 0.
C8_FalsyMissingForFirstThree ==
    (LkRan /\ lk_parsed.tag # "raise") =>
        LET first3 == TruthyPriceKeys(lk_item, 3)
            last   == Get(lk_item, "value")
        IN  /\ lk_price = IF first3 = {} THEN last
                          ELSE lk_item.f[PriceKeys[Least(first3)]]
            /\ (TruthyPriceKeys(lk_item, 4) = {} /\ lk_parsed.tag = "ok") =>
                   /\ lk_outcome = "skip" <=>
                          last.kind \in {"null", "str_empty", "emptylist"}
                   /\ lk_outcome = "append" <=> last.kind \in {"num", "bool"}
                   /\ lk_outcome = "append" => lk_sample.price = 0

\* price is 0 and so is value: the 0 under price is passed over, the 0 under
\* value is used and a sample priced 0 is appended
C8_Witness ==
    /\ lk_pc = "done"
    /\ lk_item.isdict
    /\ lk_item.f["price"] = Num(0)
    /\ lk_item.f["value"] = Num(0)
    /\ lk_price = Num(0)
    /\ lk_outcome = "append"
    /\ lk_sample.price = 0

\* a record the claim counts: a dict with a timestamp under one of the four
\* keys that the parser accepts and a price under one of the four keys that
\* float() converts
ClaimValid(item) ==
    /\ item.isdict
    /\ \E i \in 1..4 : /\ item.f[TsKeys[i]] # Absent
                       /\ parse_timestamp(item.f[TsKeys[i]]).tag = "ok"
    /\ \E i \in 1..4 : /\ item.f[PriceKeys[i]] # Absent
                       /\ to_float(item.f[PriceKeys[i]]).tag = "ok"

\* C2: extract_samples returns one sample for each such record and none for
\* any other, in ascending order of timestamp.
C2_ExactlyTheValidRecords ==
    ex_pc \in {"done", "raised"} =>
        /\ ex_result.tag = "ok"
        /\ Len(ex_result.samples) =
               Cardinality({i \in 1..Len(ex_payload.data) : ClaimValid(ex_payload.data[i])})
        /\ IsTimeSorted(ex_result.samples)

\* ----------------------------------------------------------- iter_markets
MaxCap         == 2   \* largest --max-pages tried
MaxServerPages == 3   \* the server hands out a cursor on fewer pages than this

\* a next-page cursor the server hands out on page n
Cursor(n) == Val("cursor", n)

\* a response of the markets endpoint: a dict or a bare list; data tells, per
\* item, whether normalize_market finds both an id and a title in it
Response(isdict, data, cursor) == [isdict |-> isdict, data |-> data, cursor |-> cursor]

PageDatas == {<<>>, <<"invalid">>, <<"valid">>, <<"valid", "valid">>}

Responses(page) ==
    {Response(FALSE, d, Null) : d \in PageDatas}
    \cup {Response(TRUE, d, c) : d \in PageDatas,
              c \in {Null, StrEmpty}
                    \cup (IF page + 1 < MaxServerPages THEN {Cursor(page + 1)} ELSE {})}

\* params["cursor"], set only `if next_cursor`; fetch_json drops a None
CursorParam(next_cursor) == IF Truthy(next_cursor) THEN next_cursor ELSE Null

\* for item in data: ... if market.id and market.title: yield market
RECURSIVE Yield(_, _, _)
Yield(markets, data, i) ==
    IF i > Len(data) THEN markets
    ELSE Yield(IF data[i] = "valid" THEN Append(markets, Len(markets) + 1) ELSE markets,
               data, i + 1)

\* payload.get("nextCursor") if isinstance(payload, dict) else None
NextCursor(payload) == IF payload.isdict THEN payload.cursor ELSE Null

\* if max_pages and page >= max_pages: break / if not next_cursor: break
CapOffByOne(page, max_pages) == max_pages # 0 /\ page > max_pages
CapReached(page, max_pages) == max_pages # 0 /\ page >= max_pages

Breaks(page, max_pages, next_cursor) ==
    CapReached(page, max_pages) \/ ~Truthy(next_cursor)

\* what the log keeps of one request
Request(sent, ok, empty, cursor) ==
    [sent |-> sent, ok |-> ok, empty |-> empty, cursor |-> cursor]

\* ------------------------------------------------------------ the writers
File(m, kind, rows) == [market |-> m, kind |-> kind, rows |-> rows]

\* write_csv: the header row, then one row per sample
write_csv(files, m, samples) == files \cup {File(m, "csv", Len(samples))}

\* write_svg: `if not samples: return`
write_svg_unguarded(files, m, samples) == files \cup {File(m, "svg", Len(samples))}
write_svg(files, m, samples) ==
    IF samples = <<>> THEN files ELSE files \cup {File(m, "svg", Len(samples))}

\* write_html: `if not samples: return`
write_html(files, m, samples) ==
    IF samples = <<>> THEN files ELSE files \cup {File(m, "html", Len(samples))}

\* ------------------------------------------------------------------ main
\* history payloads: no list at all, a record whose timestamp 0 is passed
\* over, two records out of order, a record whose timestamp does not fit a float
Histories ==
    { Payload("scalar", <<>>),
      Payload("list", <<Item(OnlyFirst(Num(0)), OnlyFirst(Num(1)))>>),
      Payload("dict_data", <<Item(OnlyFirst(Num(MaxTicks)), OnlyFirst(Num(1))),
                             Item(OnlyFirst(Num(1)), OnlyFirst(Num(2)))>>),
      Payload("list", <<Item(OnlyFirst(BigInt), OnlyFirst(Num(1)))>>) }

MnInit ==
    /\ mn_pc = "discover"
    /\ mn_cap \in 0..MaxCap
    /\ mn_svg \in BOOLEAN
    /\ mn_html \in BOOLEAN
    /\ mn_interval \in Intervals
    /\ mn_page = 0
    /\ mn_cursor = Null
    /\ mn_log = <<>>
    /\ mn_markets = <<>>
    /\ mn_i = 1
    /\ mn_outcomes = <<>>
    /\ mn_files = {}
    /\ mn_exit = "none"

MnIdle ==
    /\ mn_pc = "idle"
    /\ mn_cap = 0
    /\ mn_svg = TRUE
    /\ mn_html = TRUE
    /\ mn_interval = 1
    /\ mn_page = 0
    /\ mn_cursor = Null
    /\ mn_log = <<>>
    /\ mn_markets = <<>>
    /\ mn_i = 1
    /\ mn_outcomes = <<>>
    /\ mn_files = {}
    /\ mn_exit = "none"

\* fetch_json raises inside iter_markets: nothing catches it, main ends
DiscoverFails ==
    /\ mn_pc = "discover"
    /\ mn_log' = Append(mn_log, Request(CursorParam(mn_cursor), FALSE, TRUE, Null))
    /\ mn_pc' = "crashed"
    /\ mn_exit' = "exception"
    /\ UNCHANGED <<mn_cap, mn_svg, mn_html, mn_interval, mn_page, mn_cursor,
                   mn_markets, mn_i, mn_outcomes, mn_files>>
    /\ UNCHANGED <<rsVars, lkVars, exVars>>

\* `if not data: break`
DiscoverEmpty ==
    /\ mn_pc = "discover"
    /\ \E payload \in Responses(mn_page) :
           /\ payload.data = <<>>
           /\ mn_log' = Append(mn_log, Request(CursorParam(mn_cursor), TRUE, TRUE,
                                               NextCursor(payload)))
    /\ mn_pc' = "listed"
    /\ UNCHANGED <<mn_cap, mn_svg, mn_html, mn_interval, mn_page, mn_cursor,
                   mn_markets, mn_i, mn_outcomes, mn_files, mn_exit>>
    /\ UNCHANGED <<rsVars, lkVars, exVars>>

\* a page with items: yield, take the cursor, count the page, break or go on
DiscoverPage ==
    /\ mn_pc = "discover"
    /\ \E payload \in Responses(mn_page) :
           /\ payload.data # <<>>
           /\ mn_log' = Append(mn_log, Request(CursorParam(mn_cursor), TRUE, FALSE,
                                               NextCursor(payload)))
           /\ mn_markets' = Yield(mn_markets, payload.data, 1)
           /\ mn_cursor' = NextCursor(payload)
           /\ mn_page' = mn_page + 1
           /\ mn_pc' = IF Breaks(mn_page + 1, mn_cap, NextCursor(payload))
                       THEN "listed" ELSE "discover"
    /\ UNCHANGED <<mn_cap, mn_svg, mn_html, mn_interval, mn_i, mn_outcomes,
                   mn_files, mn_exit>>
    /\ UNCHANGED <<rsVars, lkVars, exVars>>

\* `if not markets: ... return 1`
NoMarkets ==
    /\ mn_pc = "listed"
    /\ mn_markets = <<>>
    /\ mn_exit' = "1"
    /\ mn_pc' = "done"
    /\ UNCHANGED <<mn_cap, mn_svg, mn_html, mn_interval, mn_page, mn_cursor, mn_log,
                   mn_markets, mn_i, mn_outcomes, mn_files>>
    /\ UNCHANGED <<rsVars, lkVars, exVars>>

\* fetch_json(history_url) raises: logged, `continue`
HistoryFails ==
    /\ mn_pc = "listed"
    /\ mn_i <= Len(mn_markets)
    /\ mn_outcomes' = Append(mn_outcomes, [fetched |-> FALSE, rows |-> 0])
    /\ mn_i' = mn_i + 1
    /\ UNCHANGED <<mn_pc, mn_cap, mn_svg, mn_html, mn_interval, mn_page, mn_cursor,
                   mn_log, mn_markets, mn_files, mn_exit>>
    /\ UNCHANGED <<rsVars, lkVars, exVars>>

\* the history arrives and extract_samples raises: nothing catches it
HistoryRaises ==
    /\ mn_pc = "listed"
    /\ mn_i <= Len(mn_markets)
    /\ \E history_payload \in Histories :
           extract_samples(history_payload).tag = "raise"
    /\ mn_pc' = "crashed"
    /\ mn_exit' = "exception"
    /\ UNCHANGED <<mn_cap, mn_svg, mn_html, mn_interval, mn_page, mn_cursor, mn_log,
                   mn_markets, mn_i, mn_outcomes, mn_files>>
    /\ UNCHANGED <<rsVars, lkVars, exVars>>

\* the history arrives: extract, resample, write_csv, then write_svg and
\* write_html when asked for
HistorySaved ==
    /\ mn_pc = "listed"
    /\ mn_i <= Len(mn_markets)
    /\ \E history_payload \in Histories :
           /\ extract_samples(history_payload).tag = "ok"
           /\ LET samples   == extract_samples(history_payload).samples
                  resampled == resample(samples, mn_interval)
                  csv       == write_csv(mn_files, mn_markets[mn_i], resampled)
                  svg       == IF mn_svg
                               THEN write_svg(csv, mn_markets[mn_i], resampled)
                               ELSE csv
                  html      == IF mn_html
                               THEN write_html(svg, mn_markets[mn_i], resampled)
                               ELSE svg
              IN  /\ mn_files' = html
                  /\ mn_outcomes' = Append(mn_outcomes,
                                       [fetched |-> TRUE, rows |-> Len(resampled)])
    /\ mn_i' = mn_i + 1
    /\ UNCHANGED <<mn_pc, mn_cap, mn_svg, mn_html, mn_interval, mn_page, mn_cursor,
                   mn_log, mn_markets, mn_exit>>
    /\ UNCHANGED <<rsVars, lkVars, exVars>>

\* the loop is over: `return 0`
ReturnZero ==
    /\ mn_pc = "listed"
    /\ mn_markets # <<>>
    /\ mn_i > Len(mn_markets)
    /\ mn_exit' = "0"
    /\ mn_pc' = "done"
    /\ UNCHANGED <<mn_cap, mn_svg, mn_html, mn_interval, mn_page, mn_cursor, mn_log,
                   mn_markets, mn_i, mn_outcomes, mn_files>>
    /\ UNCHANGED <<rsVars, lkVars, exVars>>

\* ----------------------------------------------------- iter_markets: claims
\* discovery is over: the generator is exhausted
DiscoveryEnded ==
    \/ mn_pc \in {"listed", "done"}
    \/ mn_pc = "crashed" /\ mn_log # <<>> /\ mn_log[Len(mn_log)].ok

\* page n came back with a cursor and page n+1 is within the cap
CursorAndCapAllow(n) ==
    /\ mn_log[n].ok
    /\ Truthy(mn_log[n].cursor)
    /\ (mn_cap = 0 \/ n + 1 <= mn_cap)

\* C9 as stated: page n+1 is requested exactly when page n returned a cursor
\* and n+1 is within the cap (0: no cap), with that cursor; never more pages
\* than a non-zero cap.
C9_NextPageIffCursorAndCap ==
    /\ \A n \in 1..(Len(mn_log) - 1) :
           CursorAndCapAllow(n) /\ mn_log[n + 1].sent = mn_log[n].cursor
    /\ DiscoveryEnded => ~CursorAndCapAllow(Len(mn_log))
    /\ mn_cap # 0 => Len(mn_log) <= mn_cap

\* C9 as amended: page n+1 is requested exactly when page n returned a
\* non-empty list of items and a cursor and n+1 is within the cap (0: no cap),
\* with that cursor; a page with no items ends the paging whatever cursor it
\* carries; never more pages than a non-zero cap.
C9_NextPageIffItemsCursorAndCap ==
    /\ \A n \in 1..(Len(mn_log) - 1) :
           /\ CursorAndCapAllow(n)
           /\ ~mn_log[n].empty
           /\ mn_log[n + 1].sent = mn_log[n].cursor
    /\ DiscoveryEnded =>
           ~(CursorAndCapAllow(Len(mn_log)) /\ ~mn_log[Len(mn_log)].empty)
    /\ mn_cap # 0 => Len(mn_log) <= mn_cap

\* an uncapped run whose second page has no items but carries a cursor
C9_Witness ==
    /\ DiscoveryEnded
    /\ mn_cap = 0
    /\ Len(mn_log) = 2
    /\ mn_log[2].sent = mn_log[1].cursor
    /\ mn_log[2].empty
    /\ Truthy(mn_log[2].cursor)

\* ------------------------------------------------------------ main: claims
Ended == mn_pc \in {"done", "crashed"}

\* C3: the exit code is 1 when no market was discovered and 0 otherwise,
\* nothing else ends the run, and every market whose history fetch did not
\* fail has its CSV when the run ends.
C3_OnlyZeroMarketsIsFatal ==
    Ended =>
        /\ mn_exit = IF mn_markets = <<>> THEN "1" ELSE "0"
        /\ Len(mn_outcomes) = Len(mn_markets)
        /\ \A m \in 1..Len(mn_outcomes) :
               mn_outcomes[m].fetched =>
                   \E f \in mn_files : f.market = mn_markets[m] /\ f.kind = "csv"

\* the markets handled whose history gave no sample
EmptyMarkets ==
    {m \in 1..Len(mn_outcomes) : mn_outcomes[m].fetched /\ mn_outcomes[m].rows = 0}

\* C6 as stated: none of write_csv, write_svg, write_html writes a file for an
\* empty sequence, so a market without samples gets no file.
C6_NoFileForEmpty ==
    /\ \A f \in mn_files : f.rows > 0
    /\ \A m \in EmptyMarkets : ~\E f \in mn_files : f.market = mn_markets[m]

\* C6 as amended: write_svg and write_html write nothing for an empty
\* sequence, write_csv writes a file with the header row alone; a market
\* without samples gets that CSV and no other file.
C6_OnlyCsvForEmpty ==
    /\ \A f \in mn_files : f.rows = 0 => f.kind = "csv"
    /\ \A m \in EmptyMarkets :
           {f \in mn_files : f.market = mn_markets[m]} = {File(mn_markets[m], "csv", 0)}

\* both charts asked for, and a market handled whose history gave no sample
C6_Witness ==
    /\ mn_svg
    /\ mn_html
    /\ \E m \in EmptyMarkets : File(mn_markets[m], "csv", 0) \in mn_files
    /\ \E f \in mn_files : f.kind = "html"

\* --------------------------------------------------------- specifications
\* resample on every bounded input, then once more on its own output
RsNext == Resample \/ ResampleAgain
RsStart == RsInit /\ LkIdle /\ ExIdle /\ MnIdle
SpecResample == RsStart /\ [][RsNext]_vars

\* the loop body of extract_samples on one record
LkNext == LkSkipNonDict \/ LkParseRaises \/ LkBody
LkStart == LkInit /\ RsIdle /\ ExIdle /\ MnIdle
SpecLookup == LkStart /\ [][LkNext]_vars

\* extract_samples on every bounded payload
ExNext == ExtractReturns \/ ExtractRaises
ExStart == ExInit /\ RsIdle /\ LkIdle /\ MnIdle
SpecExtract == ExStart /\ [][ExNext]_vars

\* a run of main: discovery, then the loop over the markets
MnNext ==
    \/ DiscoverFails
    \/ DiscoverEmpty
    \/ DiscoverPage
    \/ NoMarkets
    \/ HistoryFails
    \/ HistoryRaises
    \/ HistorySaved
    \/ ReturnZero
MnStart == MnInit /\ RsIdle /\ LkIdle /\ ExIdle
SpecMain == MnStart /\ [][MnNext]_vars

====
